---- MODULE Spec2Model ----
(***************************************************************************)
(* A model of the native core of gigaam-android-ime:                       *)
(*   - the process-wide engine cache of lib.rs (ENGINE_CACHE) and the JNI  *)
(*     entry points that use it, called from several threads;              *)
(*   - GigaamEngine / GigaamModel / GigaamFrontend of gigaam.rs.           *)
(* An Option<T> is a sequence of length at most one: <<>> is None and      *)
(* <<x>> is Some(x).                                                       *)
(***************************************************************************)
EXTENDS Naturals, Integers, Sequences, FiniteSets, TLC

VARIABLES
    cache,      \* the EngineCache behind ENGINE_CACHE
    mutex,      \* the Mutex of ENGINE_CACHE: its holder and its poison flag
    th,         \* per thread: position in the entry point it runs, and its locals
    last,       \* the entry point that returned last, and what it returned
    eng,        \* a GigaamEngine driven directly through its public methods
    engCall,    \* the last method called on eng, its result, and whether a
                \* load_model has succeeded since construction or the last unload
    config,     \* a GigaamConfig
    frontend,   \* Option: the GigaamFrontend built from config
    report,     \* the result of the last GigaamModel::transcribe_samples
    ctc,        \* a run of the greedy CTC decoder over the logits of one call
    voc,        \* a vocabulary file's content and what parse_vocab_content made of it
    txt,        \* token ids, a vocabulary, and the text decoded from them
    plan,       \* runtime option ids, the availability probes, and the
                \* SessionRuntimePlan built from them
    files       \* a model directory, the model id it is requested with, and
                \* what validation and the load make of its files

cacheVars == <<cache, mutex, th, last>>

engineVars == <<eng, engCall>>

modelVars == <<config, frontend, report>>

decoderVars == <<ctc, voc, txt>>

planVars == <<plan>>

fileVars == <<files>>

vars == <<cache, mutex, th, last, eng, engCall, config, frontend, report,
          ctc, voc, txt, plan, files>>

---------------------------------------------------------------------------
(* Bounds of the model *)

NumThreads == 2

Threads == 1..NumThreads

None == <<>>

Some(x) == <<x>>

---------------------------------------------------------------------------
(* Identifiers, runtime options and the cache key *)

MODEL_INT8_ID == "gigaam-v3-e2e-ctc-int8"

MODEL_FULL_ID == "gigaam-v3-e2e-ctc"

\* The model ids and models roots the callers pass.
ModelIdInputs == {MODEL_INT8_ID, MODEL_FULL_ID, "gigaam-v2"}

RootInputs == {"/models"}

\* One recognised pair and one pair of unrecognised ids (which from_ids
\* maps to the default options).
OptionIdInputs == {<<"fast", "cpu">>, <<"turbo", "npu">>}

speed_profile_from_id(value) ==
    CASE value = "fast" -> "Fast"
      [] value = "quality" -> "Quality"
      [] OTHER -> "Balanced"

speed_profile_as_id(p) ==
    CASE p = "Balanced" -> "balanced"
      [] p = "Fast" -> "fast"
      [] p = "Quality" -> "quality"

accelerator_mode_from_id(value) ==
    CASE value = "cpu" -> "Cpu"
      [] OTHER -> "Auto"

accelerator_mode_as_id(m) ==
    CASE m = "Auto" -> "auto"
      [] m = "Cpu" -> "cpu"

RuntimeOptionsDefault == [speed_profile |-> "Balanced", accelerator_mode |-> "Auto"]

from_ids(speed_profile, accelerator_mode) ==
    [speed_profile |-> speed_profile_from_id(speed_profile),
     accelerator_mode |-> accelerator_mode_from_id(accelerator_mode)]

cache_fragment(o) ==
    "profile=" \o speed_profile_as_id(o.speed_profile)
        \o ";accelerator=" \o accelerator_mode_as_id(o.accelerator_mode)

\* Result<&str, String>: ok with the subdirectory, or the error.
model_subdirectory_name(model_id) ==
    CASE model_id = MODEL_INT8_ID -> [ok |-> TRUE, val |-> "gigaam-v3-e2e-ctc-int8"]
      [] model_id = MODEL_FULL_ID -> [ok |-> TRUE, val |-> "gigaam-v3-e2e-ctc"]
      [] OTHER -> [ok |-> FALSE, val |-> "Unsupported model id"]

resolve_model_directory(models_root, model_id) ==
    LET subdir == model_subdirectory_name(model_id)
    IN  IF subdir.ok THEN [ok |-> TRUE, val |-> models_root \o "/" \o subdir.val]
        ELSE subdir

compose_cache_key(models_root, model_id, runtime_options) ==
    models_root \o "/" \o model_subdirectory_name(model_id).val
        \o "?" \o cache_fragment(runtime_options)

---------------------------------------------------------------------------
(* The engine and the cache *)

\* GigaamEngine::new(): no path, no model.
GigaamEngineNew == [loaded_model_path |-> None, model |-> None]

\* The GigaamModel that GigaamModel::new(model_dir, runtime_options) returns.
GigaamModelNew(model_dir, runtime_options) ==
    [dir |-> model_dir, options |-> runtime_options]

\* engine.load_model(model_path, runtime_options) when GigaamModel::new succeeds.
load_model(engine, model_path, runtime_options) ==
    [loaded_model_path |-> Some(model_path),
     model |-> Some(GigaamModelNew(model_path, runtime_options))]

\* Mutant of LoadOptions: the load ignores the options the cache holds.
LoadOptionsDefault(c) == RuntimeOptionsDefault

\* The options ensure_engine_loaded passes to load_model.
LoadOptions(c) == c.runtime_options

\* Mutant of KeyDiffers: the comparison never finds the keys equal.
KeyDiffersAlways(model_key, cache_key) == TRUE

\* ensure_engine_loaded's test: the cached key is not the request's key.
KeyDiffers(model_key, cache_key) == model_key # Some(cache_key)

EmptySummary == [empty |-> TRUE, warmup |-> FALSE, provider |-> RuntimeOptionsDefault]

\* EngineCache::default()
EngineCacheDefault ==
    [model_key |-> None,
     engine |-> None,
     runtime_options |-> RuntimeOptionsDefault,
     last_profile_summary |-> EmptySummary]

\* The summary a finished transcription stores: the warmup flag and the
\* provider summary of the model that ran (a function of its options).
ProfileSummary(warmup, model) ==
    [empty |-> FALSE, warmup |-> warmup, provider |-> model.options]

---------------------------------------------------------------------------
(* Threads *)

Idle ==
    [pc |-> "idle", op |-> "", models_root |-> "", model_id |-> "",
     options |-> RuntimeOptionsDefault, cache_key |-> "", engine |-> None]

\* kind: how the entry point that returned last ended; cache_key: the key
\* its ensure_engine_loaded computed (None when it computed none).
NoCall == [kind |-> "", cache_key |-> None]

Returned(t, kind) ==
    [kind |-> kind,
     cache_key |-> IF th[t].cache_key = "" THEN None ELSE Some(th[t].cache_key)]

RequestOps == {"transcribe", "warmup"}

SampleRateInputs == {-1, 8000, 16000}

\* Mutant of MutexFree: the entry points do not wait for the mutex.
MutexNeverWaits == TRUE

\* lock(): the mutex is free (a caller blocks while another holds it).
MutexFree == mutex.holder = 0

\* Mutant of Unlocked: the guard outlives the return.
StillLocked == mutex

\* The MutexGuard is dropped: the mutex is free again.
Unlocked == [mutex EXCEPT !.holder = 0]

\* GigaamConfig::default()
GigaamConfigDefault ==
    [sample_rate |-> 16000, n_mels |-> 64, win_length |-> 320, hop_length |-> 160,
     n_fft |-> 320, center |-> FALSE, mel_scale |-> "htk", subsampling_factor |-> 4]

NoEngineCall == [op |-> "", result |-> "", loaded |-> FALSE]

NoReport ==
    [samples |-> 0, result |-> "", text |-> "", frames |-> 0, encoded_len |-> 0,
     ort_run_ms |-> 0, decode_ms |-> 0, backend_runs |-> 0, decoder_runs |-> 0]

\* No decoder run, no vocabulary, no text, no plan yet.
NoCtc == [phase |-> ""]

NoVocab == [phase |-> ""]

NoText == [phase |-> ""]

NoPlan == [phase |-> ""]

DecoderInit ==
    /\ ctc = NoCtc
    /\ voc = NoVocab
    /\ txt = NoText

PlanInit == plan = NoPlan

NoFiles == [phase |-> ""]

FilesInit == files = NoFiles

CacheInit ==
    /\ cache = EngineCacheDefault
    /\ mutex = [holder |-> 0, poisoned |-> FALSE]
    /\ th = [t \in Threads |-> Idle]
    /\ last = NoCall

EngineInit ==
    /\ eng = GigaamEngineNew
    /\ engCall = NoEngineCall

Init ==
    /\ CacheInit
    /\ EngineInit
    /\ config = GigaamConfigDefault
    /\ frontend = None
    /\ report = NoReport
    /\ DecoderInit
    /\ PlanInit
    /\ FilesInit

\* transcribe_from_jni_inputs and warmup_from_jni_inputs up to the lock:
\* resolve and validate the model directory, convert the samples.
CallRequest(t) ==
    /\ th[t].pc = "idle"
    /\ \E op \in RequestOps, root \in RootInputs, id \in ModelIdInputs,
          valid \in BOOLEAN, rate \in SampleRateInputs :
          LET dir == resolve_model_directory(root, id)
          IN  IF ~dir.ok
              THEN /\ last' = [NoCall EXCEPT !.kind = "UnsupportedModelId"]
                   /\ th' = th
              ELSE IF ~valid
              THEN /\ last' = [NoCall EXCEPT !.kind = "InvalidModelDirectory"]
                   /\ th' = th
              ELSE IF op = "transcribe" /\ rate < 0
              THEN /\ last' = [NoCall EXCEPT !.kind = "InvalidSampleRate"]
                   /\ th' = th
              ELSE /\ th' = [th EXCEPT ![t] = [Idle EXCEPT !.pc = "wait", !.op = op,
                                               !.models_root = root, !.model_id = id]]
                   /\ last' = last
    /\ UNCHANGED <<cache, mutex, engineVars, modelVars, decoderVars, planVars, fileVars>>

\* The lock of the cache and ensure_engine_loaded's key test.
LockAndCheck(t) ==
    /\ th[t].pc = "wait"
    /\ th[t].op \in RequestOps
    /\ MutexFree
    /\ IF mutex.poisoned
       THEN /\ last' = Returned(t, "CachePoisoned")
            /\ th' = [th EXCEPT ![t] = Idle]
            /\ UNCHANGED <<cache, mutex>>
       ELSE LET cache_key == compose_cache_key(th[t].models_root, th[t].model_id,
                                               cache.runtime_options)
            IN  /\ mutex' = [mutex EXCEPT !.holder = t]
                /\ IF KeyDiffers(cache.model_key, cache_key)
                   THEN th' = [th EXCEPT ![t].pc = "loading", ![t].cache_key = cache_key,
                                         ![t].engine = Some(GigaamEngineNew)]
                   ELSE th' = [th EXCEPT ![t].pc = "transcribe", ![t].cache_key = cache_key]
                /\ UNCHANGED <<cache, last>>
    /\ UNCHANGED <<engineVars, modelVars, decoderVars, planVars, fileVars>>

\* engine.load_model(...) succeeds: the new engine holds its model, the
\* cache still holds what it held.
LoadOk(t) ==
    /\ th[t].pc = "loading"
    /\ th' = [th EXCEPT ![t].pc = "loaded",
                        ![t].engine = Some(load_model(th[t].engine[1],
                                            resolve_model_directory(th[t].models_root,
                                                                    th[t].model_id).val,
                                            LoadOptions(cache)))]
    /\ UNCHANGED <<cache, mutex, last, engineVars, modelVars, decoderVars, planVars, fileVars>>

\* Mutant of LoadFail: the key is stored before the load is attempted.
LoadFailKeyStored(t) ==
    /\ th[t].pc = "loading"
    /\ last' = Returned(t, "LoadFailed")
    /\ th' = [th EXCEPT ![t] = Idle]
    /\ mutex' = [mutex EXCEPT !.holder = 0]
    /\ cache' = [cache EXCEPT !.model_key = Some(th[t].cache_key)]
    /\ UNCHANGED <<engineVars, modelVars, decoderVars, planVars, fileVars>>

\* engine.load_model(...) fails: ensure_engine_loaded returns the error.
LoadFail(t) ==
    /\ th[t].pc = "loading"
    /\ last' = Returned(t, "LoadFailed")
    /\ th' = [th EXCEPT ![t] = Idle]
    /\ mutex' = Unlocked
    /\ UNCHANGED <<cache, engineVars, modelVars, decoderVars, planVars, fileVars>>

\* ensure_engine_loaded stores the key and the engine.
Commit(t) ==
    /\ th[t].pc = "loaded"
    /\ cache' = [cache EXCEPT !.model_key = Some(th[t].cache_key),
                              !.engine = th[t].engine]
    /\ th' = [th EXCEPT ![t].pc = "transcribe", ![t].engine = None]
    /\ UNCHANGED <<mutex, last, engineVars, modelVars, decoderVars, planVars, fileVars>>

\* cache.engine.transcribe_samples(...) returns a report.
TranscribeOk(t) ==
    /\ th[t].pc = "transcribe"
    /\ IF cache.engine = None \/ cache.engine[1].model = None
       THEN /\ last' = Returned(t, "NotLoaded")
            /\ cache' = cache
       ELSE /\ last' = Returned(t, "Ok")
            /\ cache' = [cache EXCEPT !.last_profile_summary =
                            ProfileSummary(th[t].op = "warmup", cache.engine[1].model[1])]
    /\ th' = [th EXCEPT ![t] = Idle]
    /\ mutex' = Unlocked
    /\ UNCHANGED <<engineVars, modelVars, decoderVars, planVars, fileVars>>

\* Mutant of TranscribeFail: a failed transcription drops the cached engine.
TranscribeFailDropsEngine(t) ==
    /\ th[t].pc = "transcribe"
    /\ cache.engine # None /\ cache.engine[1].model # None
    /\ last' = Returned(t, "TranscriptionFailed")
    /\ th' = [th EXCEPT ![t] = Idle]
    /\ mutex' = [mutex EXCEPT !.holder = 0]
    /\ cache' = [cache EXCEPT !.engine = None, !.model_key = None]
    /\ UNCHANGED <<engineVars, modelVars, decoderVars, planVars, fileVars>>

\* cache.engine.transcribe_samples(...) returns an error.
TranscribeFail(t) ==
    /\ th[t].pc = "transcribe"
    /\ cache.engine # None /\ cache.engine[1].model # None
    /\ last' = Returned(t, "TranscriptionFailed")
    /\ th' = [th EXCEPT ![t] = Idle]
    /\ mutex' = Unlocked
    /\ UNCHANGED <<cache, engineVars, modelVars, decoderVars, planVars, fileVars>>

\* A panic while the guard is held: unwinding drops the guard and poisons
\* the mutex.
Panic(t) ==
    /\ th[t].pc \in {"loading", "transcribe"}
    /\ last' = Returned(t, "Panicked")
    /\ th' = [th EXCEPT ![t] = Idle]
    /\ mutex' = [holder |-> 0, poisoned |-> TRUE]
    /\ UNCHANGED <<cache, engineVars, modelVars, decoderVars, planVars, fileVars>>

\* set_runtime_options_from_jni_inputs up to the lock.
CallSetRuntimeOptions(t) ==
    /\ th[t].pc = "idle"
    /\ \E ids \in OptionIdInputs :
          th' = [th EXCEPT ![t] = [Idle EXCEPT !.pc = "wait", !.op = "set_runtime_options",
                                               !.options = from_ids(ids[1], ids[2])]]
    /\ UNCHANGED <<cache, mutex, last, engineVars, modelVars, decoderVars, planVars, fileVars>>

\* Mutant of SetRuntimeOptions: changed options leave the key in place.
SetRuntimeOptionsKeepsKey(t) ==
    /\ th[t].pc = "wait"
    /\ th[t].op = "set_runtime_options"
    /\ MutexFree
    /\ IF mutex.poisoned
       THEN /\ last' = Returned(t, "CachePoisoned")
            /\ cache' = cache
       ELSE IF cache.runtime_options # th[t].options
       THEN /\ last' = Returned(t, "OptionsChanged")
            /\ cache' = [cache EXCEPT !.runtime_options = th[t].options]
       ELSE /\ last' = Returned(t, "OptionsKept")
            /\ cache' = cache
    /\ th' = [th EXCEPT ![t] = Idle]
    /\ UNCHANGED <<mutex, engineVars, modelVars, decoderVars, planVars, fileVars>>

\* set_runtime_options_from_jni_inputs from the lock on.
SetRuntimeOptions(t) ==
    /\ th[t].pc = "wait"
    /\ th[t].op = "set_runtime_options"
    /\ MutexFree
    /\ IF mutex.poisoned
       THEN /\ last' = Returned(t, "CachePoisoned")
            /\ cache' = cache
       ELSE IF cache.runtime_options # th[t].options
       THEN /\ last' = Returned(t, "OptionsChanged")
            /\ cache' = [cache EXCEPT !.runtime_options = th[t].options,
                                      !.engine = None,
                                      !.model_key = None]
       ELSE /\ last' = Returned(t, "OptionsKept")
            /\ cache' = cache
    /\ th' = [th EXCEPT ![t] = Idle]
    /\ UNCHANGED <<mutex, engineVars, modelVars, decoderVars, planVars, fileVars>>

CallOther(t) ==
    /\ th[t].pc = "idle"
    /\ \E op \in {"unload", "get_last_profiling_summary"} :
          th' = [th EXCEPT ![t] = [Idle EXCEPT !.pc = "wait", !.op = op]]
    /\ UNCHANGED <<cache, mutex, last, engineVars, modelVars, decoderVars, planVars, fileVars>>

\* nativeGetLastProfilingSummary
GetLastProfilingSummary(t) ==
    /\ th[t].pc = "wait"
    /\ th[t].op = "get_last_profiling_summary"
    /\ MutexFree
    /\ last' = Returned(t, IF mutex.poisoned THEN "CacheLockFailed"
                           ELSE IF cache.last_profile_summary.empty THEN "EmptySummary"
                           ELSE "Summary")
    /\ th' = [th EXCEPT ![t] = Idle]
    /\ UNCHANGED <<cache, mutex, engineVars, modelVars, decoderVars, planVars, fileVars>>

\* nativeUnload
Unload(t) ==
    /\ th[t].pc = "wait"
    /\ th[t].op = "unload"
    /\ MutexFree
    /\ cache' = IF mutex.poisoned THEN cache
                ELSE [cache EXCEPT !.engine = None,
                                   !.model_key = None,
                                   !.last_profile_summary = EmptySummary]
    /\ last' = Returned(t, "Returned")
    /\ th' = [th EXCEPT ![t] = Idle]
    /\ UNCHANGED <<mutex, engineVars, modelVars, decoderVars, planVars, fileVars>>

Next ==
    \E t \in Threads :
        \/ CallRequest(t)
        \/ LockAndCheck(t)
        \/ LoadOk(t)
        \/ LoadFail(t)
        \/ Commit(t)
        \/ TranscribeOk(t)
        \/ TranscribeFail(t)
        \/ Panic(t)
        \/ CallSetRuntimeOptions(t)
        \/ SetRuntimeOptions(t)
        \/ CallOther(t)
        \/ GetLastProfilingSummary(t)
        \/ Unload(t)

Spec == Init /\ [][Next]_vars

\* The entry points under a fair lock and a backend whose calls return: a
\* caller that finds the mutex free again and again gets it, and a load or
\* a transcription that was started returns.
Fairness ==
    \A t \in Threads :
        /\ SF_vars(\/ LockAndCheck(t)
                   \/ SetRuntimeOptions(t)
                   \/ GetLastProfilingSummary(t)
                   \/ Unload(t))
        /\ WF_vars(\/ LoadOk(t)
                   \/ LoadFail(t)
                   \/ Commit(t)
                   \/ TranscribeOk(t)
                   \/ TranscribeFail(t))

SpecFair == Spec /\ Fairness

---------------------------------------------------------------------------
(* GigaamEngine, driven directly: load_model, unload_model, transcribe_samples *)

\* The model directories and the option ids load_model is called with.
ModelDirInputs ==
    {"/models/gigaam-v3-e2e-ctc-int8", "/models/gigaam-v3-e2e-ctc", "/sdcard/gigaam"}

SpeedProfileIdInputs == {"balanced", "fast", "quality"}

AcceleratorModeIdInputs == {"auto", "cpu"}

TranscribeErrors == {"InferenceFailed", "OutputNotFound", "ShapeMismatch"}

\* Mutant of load_model_err: a failed load drops the model loaded before.
load_model_err_drops(engine) == [loaded_model_path |-> None, model |-> None]

\* engine.load_model(...) when GigaamModel::new fails: `?` returns before
\* the engine is assigned.
load_model_err(engine) == engine

\* engine.unload_model()
unload_model(engine) == [engine EXCEPT !.loaded_model_path = None, !.model = None]

EngineLoadModelOk ==
    /\ \E dir \in ModelDirInputs, sp \in SpeedProfileIdInputs,
          am \in AcceleratorModeIdInputs :
          eng' = load_model(eng, dir, from_ids(sp, am))
    /\ engCall' = [op |-> "load_model", result |-> "Ok", loaded |-> TRUE]
    /\ UNCHANGED <<cacheVars, modelVars, decoderVars, planVars, fileVars>>

EngineLoadModelErr ==
    /\ eng' = load_model_err(eng)
    /\ engCall' = [op |-> "load_model", result |-> "LoadFailed", loaded |-> engCall.loaded]
    /\ UNCHANGED <<cacheVars, modelVars, decoderVars, planVars, fileVars>>

EngineUnloadModel ==
    /\ eng' = unload_model(eng)
    /\ engCall' = [op |-> "unload_model", result |-> "Ok", loaded |-> FALSE]
    /\ UNCHANGED <<cacheVars, modelVars, decoderVars, planVars, fileVars>>

\* engine.transcribe_samples(samples): the not-loaded error without a model,
\* else what the model's transcribe_samples returns.
EngineTranscribeSamples ==
    /\ \E outcome \in {"Ok"} \cup TranscribeErrors :
          engCall' = [op |-> "transcribe_samples",
                      result |-> IF eng.model = None THEN "NotLoaded" ELSE outcome,
                      loaded |-> engCall.loaded]
    /\ UNCHANGED <<eng, cacheVars, modelVars, decoderVars, planVars, fileVars>>

NextEngine ==
    \/ EngineLoadModelOk
    \/ EngineLoadModelErr
    \/ EngineUnloadModel
    \/ EngineTranscribeSamples

SpecEngine == Init /\ [][NextEngine]_vars

---------------------------------------------------------------------------
(* GigaamFrontend and GigaamModel::transcribe_samples *)

MaxWinLength == 3

MaxHopLength == 2

MaxNFft == 4

MaxSubsampling == 2

MaxSamples == 6

MaxMs == 1

MelScaleInputs == {"htk", "HTK", "mel"}

\* str::to_ascii_lowercase on the mel scale ids above.
to_ascii_lowercase(str) == IF str = "HTK" THEN "htk" ELSE str

eq_ignore_ascii_case(a, b) == to_ascii_lowercase(a) = to_ascii_lowercase(b)

\* Mutant of from_config: center = true is let through.
from_config_any_center(cfg, geometry_ok) ==
    IF cfg.hop_length = 0 \/ cfg.win_length = 0 \/ cfg.n_fft = 0
       \/ cfg.n_fft < cfg.win_length
    THEN [ok |-> FALSE, err |-> "InvalidConfig"]
    ELSE IF ~eq_ignore_ascii_case(cfg.mel_scale, "htk")
         THEN [ok |-> FALSE, err |-> "UnsupportedMelScale"]
    ELSE IF ~geometry_ok THEN [ok |-> FALSE, err |-> "InvalidFilterGeometry"]
    ELSE [ok |-> TRUE,
          val |-> [n_mels |-> cfg.n_mels, win_length |-> cfg.win_length,
                   hop_length |-> cfg.hop_length, n_fft |-> cfg.n_fft,
                   center |-> cfg.center]]

\* GigaamFrontend::from_config. geometry_ok: build_mel_filterbank found
\* every filter's centre strictly between its edges.
from_config(cfg, geometry_ok) ==
    IF cfg.hop_length = 0 THEN [ok |-> FALSE, err |-> "InvalidConfig"]
    ELSE IF cfg.win_length = 0 THEN [ok |-> FALSE, err |-> "InvalidConfig"]
    ELSE IF cfg.n_fft = 0 THEN [ok |-> FALSE, err |-> "InvalidConfig"]
    ELSE IF cfg.n_fft < cfg.win_length THEN [ok |-> FALSE, err |-> "InvalidConfig"]
    ELSE IF ~eq_ignore_ascii_case(cfg.mel_scale, "htk")
         THEN [ok |-> FALSE, err |-> "UnsupportedMelScale"]
    ELSE IF cfg.center THEN [ok |-> FALSE, err |-> "UnsupportedCenter"]
    ELSE IF ~geometry_ok THEN [ok |-> FALSE, err |-> "InvalidFilterGeometry"]
    ELSE [ok |-> TRUE,
          val |-> [n_mels |-> cfg.n_mels, win_length |-> cfg.win_length,
                   hop_length |-> cfg.hop_length, n_fft |-> cfg.n_fft,
                   center |-> cfg.center]]

\* Mutant of extract_features: only the empty input returns early; a
\* shorter-than-window input reaches the frame count, whose subtraction
\* underflows.
extract_features_empty_only(fe, len) ==
    IF len = 0 THEN [ok |-> TRUE, shape |-> <<1, fe.n_mels, 0>>, frame_count |-> 0]
    ELSE IF fe.center THEN [ok |-> FALSE, shape |-> <<>>, frame_count |-> 0]
    ELSE IF len < fe.win_length THEN [ok |-> FALSE, shape |-> <<>>, frame_count |-> 0]
    ELSE LET frame_count == ((len - fe.win_length) \div fe.hop_length) + 1
         IN  [ok |-> TRUE, shape |-> <<1, fe.n_mels, frame_count>>,
              frame_count |-> frame_count]

\* GigaamFrontend::extract_features on len samples: the shape of the feature
\* tensor and the frame count.
extract_features(fe, len) ==
    IF len = 0 THEN [ok |-> TRUE, shape |-> <<1, fe.n_mels, 0>>, frame_count |-> 0]
    ELSE IF fe.center THEN [ok |-> FALSE, shape |-> <<>>, frame_count |-> 0]
    ELSE IF len < fe.win_length
         THEN [ok |-> TRUE, shape |-> <<1, fe.n_mels, 0>>, frame_count |-> 0]
    ELSE LET frame_count == ((len - fe.win_length) \div fe.hop_length) + 1
         IN  [ok |-> TRUE, shape |-> <<1, fe.n_mels, frame_count>>,
              frame_count |-> frame_count]

\* Mutant of frame_reads: the whole FFT buffer is filled from the samples.
frame_reads_n_fft(fe, frame_idx) ==
    {(frame_idx * fe.hop_length) + i : i \in 0..(fe.n_fft - 1)}

\* The indices of samples[] read for frame frame_idx: start + i for the i of
\* `for i in 0..self.n_fft` with i < self.win_length; the other entries of
\* the FFT buffer are 0.0.
frame_reads(fe, frame_idx) ==
    {(frame_idx * fe.hop_length) + i : i \in {j \in 0..(fe.n_fft - 1) : j < fe.win_length}}

\* Every index of samples[] read by extract_features on len samples.
samples_read(fe, len) ==
    UNION {frame_reads(fe, frame_idx) :
              frame_idx \in 0..(extract_features(fe, len).frame_count - 1)}

\* i64 division: the quotient is truncated towards zero.
TruncDiv(a, b) == IF a >= 0 THEN a \div b ELSE -((-a) \div b)

Max(a, b) == IF a >= b THEN a ELSE b

\* ((feature_length - 1) / subsampling_factor + 1).max(0)
encoded_len(feature_length, subsampling_factor) ==
    Max(TruncDiv(feature_length - 1, subsampling_factor) + 1, 0)

\* GigaamModel::transcribe_samples on len samples. backend: what session.run
\* and the extraction of the logits give; text: what the decoder makes of the
\* logits; ort_ms, dec_ms: the measured times.
transcribe_samples(fe, subsampling_factor, len, backend, text, ort_ms, dec_ms) ==
    LET f == extract_features(fe, len)
    IN  IF ~f.ok
        THEN [NoReport EXCEPT !.samples = len, !.result = "FeatureExtractionFailed"]
        ELSE IF f.frame_count = 0
        THEN [NoReport EXCEPT !.samples = len, !.result = "Ok"]
        ELSE IF backend # "Ok"
        THEN [NoReport EXCEPT !.samples = len, !.result = backend,
                              !.frames = f.frame_count, !.backend_runs = 1]
        ELSE [samples |-> len, result |-> "Ok", text |-> text,
              frames |-> f.frame_count,
              encoded_len |-> encoded_len(f.frame_count, subsampling_factor),
              ort_run_ms |-> ort_ms, decode_ms |-> dec_ms,
              backend_runs |-> 1, decoder_runs |-> 1]

ConfigInputs ==
    [sample_rate : {16000}, n_mels : {64}, win_length : 0..MaxWinLength,
     hop_length : 0..MaxHopLength, n_fft : 0..MaxNFft, center : BOOLEAN,
     mel_scale : MelScaleInputs, subsampling_factor : 0..MaxSubsampling]

InitModel ==
    /\ CacheInit
    /\ EngineInit
    /\ config \in ConfigInputs
    /\ frontend = None
    /\ report = NoReport
    /\ DecoderInit
    /\ PlanInit
    /\ FilesInit

\* GigaamModel::new builds the frontend of its configuration, once.
FromConfigOk ==
    /\ frontend = None
    /\ report = NoReport
    /\ \E geometry_ok \in BOOLEAN :
          /\ from_config(config, geometry_ok).ok
          /\ frontend' = Some(from_config(config, geometry_ok).val)
    /\ UNCHANGED <<config, report, cacheVars, engineVars, decoderVars, planVars, fileVars>>

FromConfigErr ==
    /\ frontend = None
    /\ report = NoReport
    /\ \E geometry_ok \in BOOLEAN :
          /\ ~from_config(config, geometry_ok).ok
          /\ report' = [NoReport EXCEPT !.result = from_config(config, geometry_ok).err]
    /\ UNCHANGED <<config, frontend, cacheVars, engineVars, decoderVars, planVars, fileVars>>

\* model.transcribe_samples(samples) on a model with this frontend and
\* subsampling_factor = config.subsampling_factor.max(1).
TranscribeSamples ==
    /\ frontend # None
    /\ \E len \in 0..MaxSamples, backend \in {"Ok"} \cup TranscribeErrors,
          text \in {"", "da"}, ort_ms \in 0..MaxMs, dec_ms \in 0..MaxMs :
          report' = transcribe_samples(frontend[1], Max(config.subsampling_factor, 1),
                                       len, backend, text, ort_ms, dec_ms)
    /\ UNCHANGED <<config, frontend, cacheVars, engineVars, decoderVars, planVars, fileVars>>

NextModel ==
    \/ FromConfigOk
    \/ FromConfigErr
    \/ TranscribeSamples

SpecModel == InitModel /\ [][NextModel]_vars

---------------------------------------------------------------------------
(* ctc_greedy_decode_ids, and the encoded length it is called with *)

MaxTimeSteps == 3

MaxFeatureLength == 4

\* An f32: a number, or NaN.
F(v) == [nan |-> FALSE, v |-> v]

NaN == [nan |-> TRUE, v |-> 0]

LogitInputs == {F(0), F(1), NaN}

\* logits.shape()[2]
VocabSizeInputs == {0, 3}

BlankIdxInputs == {0, 2, 3}

\* One time step of the logits: a value per vocabulary index.
Frames(vocab_size) == [1..vocab_size -> LogitInputs]

\* f32::partial_cmp: None when either side is NaN.
partial_cmp(a, b) ==
    IF a.nan \/ b.nan THEN None
    ELSE Some(IF a.v < b.v THEN "Less" ELSE IF a.v = b.v THEN "Equal" ELSE "Greater")

unwrap_or(opt, default) == IF opt = None THEN default ELSE opt[1]

\* Iterator::max_by over the frame from index idx on, acc being the index
\* kept so far: the kept one stays only when it compares Greater.
RECURSIVE max_by(_, _, _)
max_by(frame, idx, acc) ==
    IF idx >= Len(frame) THEN acc
    ELSE max_by(frame, idx + 1,
                IF unwrap_or(partial_cmp(frame[acc + 1], frame[idx + 1]), "Equal") = "Greater"
                THEN acc ELSE idx)

\* The best_idx of one frame; blank_idx when the frame has no element.
best_idx(frame, blank_idx) ==
    IF Len(frame) = 0 THEN blank_idx ELSE max_by(frame, 1, 0)

Min(a, b) == IF a <= b THEN a ELSE b

\* Mutant of usable_steps: every time step of the logits is decoded.
usable_steps_all(encoded_length, time_steps) == time_steps

\* let usable_steps = encoded_len.min(time_steps);
usable_steps(encoded_length, time_steps) == Min(encoded_length, time_steps)

\* if best_idx != blank_idx && best_idx != prev_token { token_ids.push(best_idx) }
push_token(token_ids, best, prev_token, blank_idx) ==
    IF best # blank_idx /\ best # prev_token THEN Append(token_ids, best) ELSE token_ids

\* Mutant of prev_token_after: prev_token follows the emitted tokens only.
prev_token_emitted(prev_token, best, blank_idx) ==
    IF best # blank_idx /\ best # prev_token THEN best ELSE prev_token

\* prev_token = best_idx;
prev_token_after(prev_token, best, blank_idx) == best

RECURSIVE decode_frames(_, _, _, _, _, _)
decode_frames(logits, usable, frame_idx, prev_token, token_ids, blank_idx) ==
    IF frame_idx >= usable THEN token_ids
    ELSE LET best == best_idx(logits[frame_idx + 1], blank_idx)
         IN  decode_frames(logits, usable, frame_idx + 1,
                           prev_token_after(prev_token, best, blank_idx),
                           push_token(token_ids, best, prev_token, blank_idx),
                           blank_idx)

\* ctc_greedy_decode_ids(logits, encoded_len, blank_idx), logits being the
\* sequence of its frames.
ctc_greedy_decode_ids(logits, encoded_length, blank_idx) ==
    decode_frames(logits, usable_steps(encoded_length, Len(logits)), 0, blank_idx, <<>>,
                  blank_idx)

Floats(row) == [i \in DOMAIN row |-> F(row[i])]

\* The logits of the test ctc_decoder_collapses_repeats_and_removes_blank.
TestLogits ==
    << Floats(<<0, 5, 1, -1>>), Floats(<<0, 4, 1, -1>>), Floats(<<0, 1, 0, 3>>),
       Floats(<<0, 6, 0, -1>>), Floats(<<0, 1, 5, -1>>), Floats(<<0, 1, 4, -1>>) >>

\* A call of GigaamModel::transcribe_samples that has its features:
\* feature_length frames, on a model with this subsampling factor, blank
\* index and vocabulary size.
CtcCall(feature_length, subsampling_factor, blank_idx, vocab_size) ==
    [phase |-> "call", feature_length |-> feature_length,
     subsampling_factor |-> subsampling_factor, blank_idx |-> blank_idx,
     vocab_size |-> vocab_size, encoded_len |-> 0, time_steps |-> 0,
     frame_idx |-> 0, prev_token |-> blank_idx, best_idx |-> blank_idx,
     frame |-> <<>>, token_ids |-> <<>>]

InitCtc ==
    /\ CacheInit
    /\ EngineInit
    /\ config = GigaamConfigDefault
    /\ frontend = None
    /\ report = NoReport
    /\ ctc \in {CtcCall(fl, sf, b, v) : fl \in 0..MaxFeatureLength,
                                        sf \in 1..MaxSubsampling,
                                        b \in BlankIdxInputs, v \in VocabSizeInputs}
    /\ voc = NoVocab
    /\ txt = NoText
    /\ PlanInit
    /\ FilesInit

\* if feature_length == 0 { return Ok(report with empty text) }
CtcSkip ==
    /\ ctc.phase = "call"
    /\ ctc.feature_length = 0
    /\ ctc' = [ctc EXCEPT !.phase = "skipped"]
    /\ UNCHANGED <<voc, txt, cacheVars, engineVars, modelVars, planVars, fileVars>>

\* The backend returns logits of time_steps steps; encoded_len is computed
\* and the decoder is entered.
CtcStart ==
    /\ ctc.phase = "call"
    /\ ctc.feature_length # 0
    /\ \E time_steps \in 0..MaxTimeSteps :
          ctc' = [ctc EXCEPT !.phase = "decoding",
                             !.encoded_len = encoded_len(ctc.feature_length,
                                                         ctc.subsampling_factor),
                             !.time_steps = time_steps]
    /\ UNCHANGED <<voc, txt, cacheVars, engineVars, modelVars, planVars, fileVars>>

\* One iteration of `for frame_idx in 0..usable_steps`, on the frame the
\* logits hold at frame_idx.
CtcStep ==
    /\ ctc.phase = "decoding"
    /\ ctc.frame_idx < usable_steps(ctc.encoded_len, ctc.time_steps)
    /\ \E frame \in Frames(ctc.vocab_size) :
          LET best == best_idx(frame, ctc.blank_idx)
          IN  ctc' = [ctc EXCEPT
                        !.frame = frame,
                        !.best_idx = best,
                        !.token_ids = push_token(ctc.token_ids, best, ctc.prev_token,
                                                 ctc.blank_idx),
                        !.prev_token = prev_token_after(ctc.prev_token, best,
                                                        ctc.blank_idx),
                        !.frame_idx = ctc.frame_idx + 1]
    /\ UNCHANGED <<voc, txt, cacheVars, engineVars, modelVars, planVars, fileVars>>

\* The loop is over: token_ids is returned.
CtcReturn ==
    /\ ctc.phase = "decoding"
    /\ ctc.frame_idx >= usable_steps(ctc.encoded_len, ctc.time_steps)
    /\ ctc' = [ctc EXCEPT !.phase = "done"]
    /\ UNCHANGED <<voc, txt, cacheVars, engineVars, modelVars, planVars, fileVars>>

NextCtc ==
    \/ CtcSkip
    \/ CtcStart
    \/ CtcStep
    \/ CtcReturn

SpecCtc == InitCtc /\ [][NextCtc]_vars

---------------------------------------------------------------------------
(* parse_vocab_content *)
(* A str is the sequence of its characters; "_" stands for the word-boundary *)
(* marker U+2581.                                                            *)

MaxLines == 3

BlkToken == <<"<", "b", "l", "k", ">">>

\* The lines a vocabulary file is made of here: "<blk> 0", "<blk> 2",
\* "_a 1", "b 1", "b 2 " (trailing space), "" (empty), "a" (no separator),
\* "a x" (id not a number).
LineInputs ==
    { BlkToken \o <<" ", "0">>,
      BlkToken \o <<" ", "2">>,
      <<"_", "a", " ", "1">>,
      <<"b", " ", "1">>,
      <<"b", " ", "2", " ">>,
      <<>>,
      <<"a">>,
      <<"a", " ", "x">> }

\* The content of the test vocab_loader_parses_blank_and_word_boundary_tokens.
TestVocabContent ==
    << <<"<", "u", "n", "k", ">", " ", "0">>,
       <<"_", "h", "e", "l", "l", "o", " ", "1">>,
       <<"w", "o", "r", "l", "d", " ", "2">>,
       BlkToken \o <<" ", "3">> >>

\* char::is_whitespace on the characters used here.
is_whitespace(c) == c \in {" ", "\t"}

RECURSIVE trim_end(_)
trim_end(str) ==
    IF str # <<>> /\ is_whitespace(str[Len(str)])
    THEN trim_end(SubSeq(str, 1, Len(str) - 1))
    ELSE str

RECURSIVE trim_start(_)
trim_start(str) ==
    IF str # <<>> /\ is_whitespace(str[1]) THEN trim_start(Tail(str)) ELSE str

trim(str) == trim_start(trim_end(str))

\* str::rsplit_once(' '): the parts before and after the last space.
rsplit_once(str) ==
    LET spaces == {i \in DOMAIN str : str[i] = " "}
    IN  IF spaces = {} THEN None
        ELSE LET at == CHOOSE i \in spaces : \A j \in spaces : j <= i
             IN  Some(<<SubSeq(str, 1, at - 1), SubSeq(str, at + 1, Len(str))>>)

Digits == <<"0", "1", "2", "3", "4", "5", "6", "7", "8", "9">>

digit_value(c) == (CHOOSE i \in DOMAIN Digits : Digits[i] = c) - 1

RECURSIVE digits_value(_)
digits_value(str) ==
    IF str = <<>> THEN 0
    ELSE (digits_value(SubSeq(str, 1, Len(str) - 1)) * 10) + digit_value(str[Len(str)])

\* str::parse::<usize>() on ids far below usize::MAX.
parse_usize(str) ==
    IF str # <<>> /\ \A i \in DOMAIN str : \E d \in DOMAIN Digits : Digits[d] = str[i]
    THEN Some(digits_value(str))
    ELSE None

\* Mutant of replace_marker: the marker stays in the token.
keep_marker(token) == token

\* token.replace('\u{2581}', " ")
replace_marker(token) == [i \in DOMAIN token |-> IF token[i] = "_" THEN " " ELSE token[i]]

\* The state of parse_vocab_content before its loop.
VocabStart(content) ==
    [phase |-> "lines", content |-> content, line_idx |-> 0, entries |-> <<>>,
     max_id |-> 0, blank_idx |-> None, vocab |-> <<>>, error |-> ""]

\* One iteration of `for raw_line in content.lines()`.
vocab_line(st, raw_line) ==
    LET line == trim_end(raw_line)
        parts == rsplit_once(line)
        next == [st EXCEPT !.line_idx = st.line_idx + 1]
    IN  IF line = <<>> THEN next
        ELSE IF parts = None
        THEN [next EXCEPT !.phase = "error", !.error = "InvalidVocabLine"]
        ELSE LET token == parts[1][1]
                 id == parse_usize(trim(parts[1][2]))
             IN  IF id = None
                 THEN [next EXCEPT !.phase = "error", !.error = "InvalidVocabTokenId"]
                 ELSE [next EXCEPT
                         !.blank_idx = IF token = BlkToken THEN id ELSE st.blank_idx,
                         !.max_id = Max(st.max_id, id[1]),
                         !.entries = Append(st.entries, <<id[1], replace_marker(token)>>)]

\* vec![String::new(); max_id + 1], then vocab[id] = token for the entries
\* in order. The table is indexed from 1 here: id is at id + 1.
RECURSIVE fill_vocab(_, _)
fill_vocab(vocab, entries) ==
    IF entries = <<>> THEN vocab
    ELSE fill_vocab([vocab EXCEPT ![entries[1][1] + 1] = entries[1][2]], Tail(entries))

\* What follows the loop: the blank check and the dense table.
vocab_finish(st) ==
    IF st.blank_idx = None
    THEN [st EXCEPT !.phase = "error", !.error = "MissingBlank"]
    ELSE [st EXCEPT !.phase = "parsed",
                    !.vocab = fill_vocab([i \in 1..(st.max_id + 1) |-> <<>>], st.entries)]

RECURSIVE vocab_lines(_)
vocab_lines(st) ==
    IF st.phase # "lines" THEN st
    ELSE IF st.line_idx >= Len(st.content) THEN vocab_finish(st)
    ELSE vocab_lines(vocab_line(st, st.content[st.line_idx + 1]))

parse_vocab_content(content) == vocab_lines(VocabStart(content))

ContentInputs == UNION {[1..n -> LineInputs] : n \in 0..MaxLines}

InitVocab ==
    /\ CacheInit
    /\ EngineInit
    /\ config = GigaamConfigDefault
    /\ frontend = None
    /\ report = NoReport
    /\ ctc = NoCtc
    /\ voc \in {VocabStart(content) : content \in ContentInputs}
    /\ txt = NoText
    /\ PlanInit
    /\ FilesInit

VocabLine ==
    /\ voc.phase = "lines"
    /\ voc.line_idx < Len(voc.content)
    /\ voc' = vocab_line(voc, voc.content[voc.line_idx + 1])
    /\ UNCHANGED <<ctc, txt, cacheVars, engineVars, modelVars, planVars, fileVars>>

VocabFinish ==
    /\ voc.phase = "lines"
    /\ voc.line_idx >= Len(voc.content)
    /\ voc' = vocab_finish(voc)
    /\ UNCHANGED <<ctc, txt, cacheVars, engineVars, modelVars, planVars, fileVars>>

NextVocab ==
    \/ VocabLine
    \/ VocabFinish

SpecVocab == InitVocab /\ [][NextVocab]_vars

---------------------------------------------------------------------------
(* decode_token_ids_to_text and DECODE_SPACE_RE *)

MaxTokens == 4

\* Vocabularies: one of one-character tokens (a space, a letter, a comma,
\* a tab) and an empty token, and the one parsed from the test content.
VocabInputs ==
    { << <<" ">>, <<"a">>, <<",">>, <<"\t">>, <<>> >>,
      parse_vocab_content(TestVocabContent).vocab }

\* \w on the characters used here.
is_word_char(c) ==
    c \in {"a", "b", "d", "e", "h", "k", "l", "n", "o", "r", "u", "w", "x",
           "0", "1", "2", "3", "4", "5", "6", "7", "8", "9", "_"}

\* \b at the position after the first q characters of str: exactly one of
\* the characters on its two sides is a word character.
is_word_boundary(str, q) ==
    LET before == q >= 1 /\ is_word_char(str[q])
        after == q < Len(str) /\ is_word_char(str[q + 1])
    IN  before # after

\* The match of \A\s|\s\B|(\s)\b that starts at character pos of str, if
\* any, the alternatives tried in this order; group1 says whether the
\* capture group took part.
decode_space_match(str, pos) ==
    IF ~is_whitespace(str[pos]) THEN None
    ELSE IF pos = 1 THEN Some([group1 |-> FALSE])
    ELSE IF ~is_word_boundary(str, pos) THEN Some([group1 |-> FALSE])
    ELSE Some([group1 |-> TRUE])

\* Mutant of decode_space_replacement: every match is removed.
decode_space_removed(captures) == <<>>

\* if captures.get(1).is_some() { " " } else { "" }
decode_space_replacement(captures) == IF captures.group1 THEN <<" ">> ELSE <<>>

\* Regex::replace_all from character pos on: every match is one character
\* long, so the matches never overlap.
RECURSIVE replace_all(_, _)
replace_all(str, pos) ==
    IF pos > Len(str) THEN <<>>
    ELSE (IF decode_space_match(str, pos) = None
          THEN <<str[pos]>>
          ELSE decode_space_replacement(decode_space_match(str, pos)[1]))
         \o replace_all(str, pos + 1)

\* <[String]>::get(id)
vocab_get(vocab, id) == IF id < Len(vocab) THEN Some(vocab[id + 1]) ELSE None

\* token_ids.iter().filter_map(|&id| vocab.get(id)).fold(String::new(), push_str)
RECURSIVE concat_tokens(_, _)
concat_tokens(token_ids, vocab) ==
    IF token_ids = <<>> THEN <<>>
    ELSE (IF vocab_get(vocab, token_ids[1]) = None THEN <<>>
          ELSE vocab_get(vocab, token_ids[1])[1])
         \o concat_tokens(Tail(token_ids), vocab)

decode_token_ids_to_text(token_ids, vocab) == replace_all(concat_tokens(token_ids, vocab), 1)

TextCall(token_ids, vocab) ==
    [phase |-> "call", token_ids |-> token_ids, vocab |-> vocab,
     concatenated |-> <<>>, text |-> <<>>]

InitText ==
    /\ CacheInit
    /\ EngineInit
    /\ config = GigaamConfigDefault
    /\ frontend = None
    /\ report = NoReport
    /\ ctc = NoCtc
    /\ voc = NoVocab
    /\ txt \in {TextCall(token_ids, vocab) :
                   vocab \in VocabInputs,
                   token_ids \in UNION {[1..n -> 0..5] : n \in 0..MaxTokens}}
    /\ PlanInit
    /\ FilesInit

TextConcat ==
    /\ txt.phase = "call"
    /\ txt' = [txt EXCEPT !.phase = "concatenated",
                          !.concatenated = concat_tokens(txt.token_ids, txt.vocab)]
    /\ UNCHANGED <<ctc, voc, cacheVars, engineVars, modelVars, planVars, fileVars>>

TextReplaceAll ==
    /\ txt.phase = "concatenated"
    /\ txt' = [txt EXCEPT !.phase = "done", !.text = replace_all(txt.concatenated, 1)]
    /\ UNCHANGED <<ctc, voc, cacheVars, engineVars, modelVars, planVars, fileVars>>

NextText ==
    \/ TextConcat
    \/ TextReplaceAll

SpecText == InitText /\ [][NextText]_vars

---------------------------------------------------------------------------
(* SessionRuntimePlan::from_runtime_options *)

XNNPACK_THREAD_COUNT == 4

\* What is_available() of an execution provider returns: Ok(true),
\* Ok(false) or an error.
ProbeInputs == {"true", "false", "err"}

PlanSpeedIdInputs == {"balanced", "fast", "quality", "turbo"}

PlanAcceleratorIdInputs == {"auto", "cpu", "npu"}

\* is_available().unwrap_or(default)
available_or(probe, default) ==
    IF probe = "err" THEN default ELSE probe = "true"

\* Mutant of nnapi_use_fp16: half precision under every profile.
nnapi_use_fp16_always(speed_profile) == TRUE

\* RuntimeSpeedProfile::nnapi_use_fp16
nnapi_use_fp16(speed_profile) == speed_profile # "Quality"

\* RuntimeSpeedProfile::cpu_threads: (intra, inter, parallel)
cpu_threads(speed_profile) ==
    CASE speed_profile = "Balanced" -> <<4, 1, FALSE>>
      [] speed_profile = "Fast" -> <<6, 1, FALSE>>
      [] speed_profile = "Quality" -> <<4, 1, TRUE>>

\* SessionRuntimePlan::from_runtime_options; probes holds what the
\* availability probes of the three providers return. The summary string
\* is the record of the values formatted into it.
from_runtime_options(options, probes) ==
    IF options.accelerator_mode = "Auto"
    THEN LET xnn_available == available_or(probes.xnnpack, FALSE)
             nnapi_available == available_or(probes.nnapi, FALSE)
             cpu_available == available_or(probes.cpu, TRUE)
         IN  [providers |->
                 << [kind |-> "XNNPACK", intra_op_num_threads |-> XNNPACK_THREAD_COUNT],
                    [kind |-> "NNAPI", disable_cpu |-> TRUE,
                     fp16 |-> nnapi_use_fp16(options.speed_profile)],
                    [kind |-> "CPU"] >>,
              provider_summary |->
                 [mode |-> "auto", profile |-> speed_profile_as_id(options.speed_profile),
                  xnnpack_available |-> xnn_available,
                  xnnpack_threads |-> XNNPACK_THREAD_COUNT,
                  nnapi_available |-> nnapi_available,
                  nnapi_fp16 |-> nnapi_use_fp16(options.speed_profile),
                  cpu_available |-> cpu_available],
              intra_threads |-> 1,
              inter_threads |-> 1,
              parallel_execution |-> FALSE]
    ELSE LET threads == cpu_threads(options.speed_profile)
             cpu_available == available_or(probes.cpu, TRUE)
         IN  [providers |-> << [kind |-> "CPU"] >>,
              provider_summary |->
                 [mode |-> "cpu", profile |-> speed_profile_as_id(options.speed_profile),
                  cpu_available |-> cpu_available],
              intra_threads |-> threads[1],
              inter_threads |-> threads[2],
              parallel_execution |-> threads[3]]

\* The option ids a caller passes, on a device whose providers answer the
\* availability probes with probes.
PlanCall(speed_profile, accelerator_mode, probes) ==
    [phase |-> "ids", speed_profile |-> speed_profile,
     accelerator_mode |-> accelerator_mode, probes |-> probes]

InitPlan ==
    /\ CacheInit
    /\ EngineInit
    /\ config = GigaamConfigDefault
    /\ frontend = None
    /\ report = NoReport
    /\ DecoderInit
    /\ plan \in {PlanCall(sp, am, probes) :
                    sp \in PlanSpeedIdInputs, am \in PlanAcceleratorIdInputs,
                    probes \in [xnnpack : ProbeInputs, nnapi : ProbeInputs,
                                cpu : ProbeInputs]}
    /\ FilesInit

\* RuntimeOptions::from_ids on the ids of the call.
PlanFromIds ==
    /\ plan.phase = "ids"
    /\ plan' = [phase |-> "options",
                options |-> from_ids(plan.speed_profile, plan.accelerator_mode),
                probes |-> plan.probes]
    /\ UNCHANGED <<cacheVars, engineVars, modelVars, decoderVars, fileVars>>

\* GigaamModel::new builds the plan of its runtime options.
PlanFromRuntimeOptions ==
    /\ plan.phase = "options"
    /\ plan' = [phase |-> "planned", options |-> plan.options, probes |-> plan.probes,
                runtime_plan |-> from_runtime_options(plan.options, plan.probes)]
    /\ UNCHANGED <<cacheVars, engineVars, modelVars, decoderVars, fileVars>>

NextPlan ==
    \/ PlanFromIds
    \/ PlanFromRuntimeOptions

SpecPlan == InitPlan /\ [][NextPlan]_vars

---------------------------------------------------------------------------
(* validate_model_directory, and the weights file GigaamModel::new opens *)

MODEL_FILENAMES == <<"v3_e2e_ctc.int8.onnx", "v3_e2e_ctc.onnx">>

VOCAB_FILE == "v3_e2e_ctc_vocab.txt"

CONFIG_FILE == "v3_e2e_ctc.yaml"

\* The files a model directory can hold here.
FileInputs ==
    {"v3_e2e_ctc.int8.onnx", "v3_e2e_ctc.onnx", VOCAB_FILE, CONFIG_FILE,
     "README.md"}

model_onnx_filename(model_id) ==
    CASE model_id = MODEL_INT8_ID -> [ok |-> TRUE, val |-> "v3_e2e_ctc.int8.onnx"]
      [] model_id = MODEL_FULL_ID -> [ok |-> TRUE, val |-> "v3_e2e_ctc.onnx"]
      [] OTHER -> [ok |-> FALSE, val |-> "Unsupported model id"]

\* The first element of the sequence that satisfies the test, if any.
RECURSIVE find_existing(_, _)
find_existing(filenames, present) ==
    IF filenames = <<>> THEN None
    ELSE IF filenames[1] \in present THEN Some(filenames[1])
    ELSE find_existing(Tail(filenames), present)

\* validate_model_directory on a directory that exists or not and holds
\* the files present: the error, or "" for Ok(()).
validate_model_directory(exists, present, model_id) ==
    IF ~exists THEN "ModelDirectoryMissing"
    ELSE IF ~model_onnx_filename(model_id).ok THEN "UnsupportedModelId"
    ELSE IF \E required_file \in {model_onnx_filename(model_id).val, VOCAB_FILE, CONFIG_FILE} :
               required_file \notin present
         THEN "RequiredFileNotFound"
    ELSE ""

\* The head of GigaamModel::new: the weights file is the first of
\* MODEL_FILENAMES that exists in the directory; then the vocabulary and
\* the configuration must exist.
model_files(present) ==
    LET model_path == find_existing(MODEL_FILENAMES, present)
    IN  IF model_path = None THEN [ok |-> FALSE, err |-> "MissingModelFile"]
        ELSE IF VOCAB_FILE \notin present THEN [ok |-> FALSE, err |-> "MissingVocabFile"]
        ELSE IF CONFIG_FILE \notin present THEN [ok |-> FALSE, err |-> "MissingConfigFile"]
        ELSE [ok |-> TRUE, model_path |-> model_path[1]]

\* A request for model_id, whose directory exists or not and holds present.
FilesCall(model_id, exists, present) ==
    [phase |-> "request", model_id |-> model_id, exists |-> exists,
     present |-> present, error |-> "", opened |-> None]

InitFiles ==
    /\ CacheInit
    /\ EngineInit
    /\ config = GigaamConfigDefault
    /\ frontend = None
    /\ report = NoReport
    /\ DecoderInit
    /\ PlanInit
    /\ \E model_id \in ModelIdInputs, exists \in BOOLEAN,
          present \in SUBSET FileInputs :
           /\ exists \/ present = {}
           /\ files = FilesCall(model_id, exists, present)

\* resolve_model_directory and validate_model_directory, before the lock.
FilesValidate ==
    /\ files.phase = "request"
    /\ files' =
          IF ~resolve_model_directory("/models", files.model_id).ok
          THEN [files EXCEPT !.phase = "rejected", !.error = "UnsupportedModelId"]
          ELSE LET error == validate_model_directory(files.exists, files.present,
                                                     files.model_id)
               IN  IF error # ""
                   THEN [files EXCEPT !.phase = "rejected", !.error = error]
                   ELSE [files EXCEPT !.phase = "validated"]
    /\ UNCHANGED <<cacheVars, engineVars, modelVars, decoderVars, planVars>>

\* ensure_engine_loaded finds no engine under the key: GigaamModel::new
\* picks the files of the directory and opens the weights.
FilesLoad ==
    /\ files.phase = "validated"
    /\ files' =
          IF model_files(files.present).ok
          THEN [files EXCEPT !.phase = "opened",
                             !.opened = Some(model_files(files.present).model_path)]
          ELSE [files EXCEPT !.phase = "load_failed",
                             !.error = model_files(files.present).err]
    /\ UNCHANGED <<cacheVars, engineVars, modelVars, decoderVars, planVars>>

NextFiles ==
    \/ FilesValidate
    \/ FilesLoad

SpecFiles == InitFiles /\ [][NextFiles]_vars

---------------------------------------------------------------------------
(* Vocabulary of the claims about the cache *)

\* Thread t holds the cache: it is between its key test and its return.
InCall(t) == th[t].pc \in {"loading", "loaded", "transcribe"}

\* The key ensure_engine_loaded computes for the request thread t waits with.
RequestKey(t) ==
    compose_cache_key(th[t].models_root, th[t].model_id, cache.runtime_options)

\* This step is thread t's key test (the lock was granted, not poisoned).
Checks(t) ==
    /\ th[t].pc = "wait"
    /\ th[t].op \in RequestOps
    /\ th'[t].pc \in {"loading", "transcribe"}

\* This step is the return of the entry point thread t runs.
Returns(t) == th[t].pc # "idle" /\ th'[t].pc = "idle"

\* The number of engines that hold a loaded model: the cached one and the
\* ones the threads have built and not yet stored.
HoldsModel(e) == e # None /\ e[1].model # None

Resident ==
    (IF HoldsModel(cache.engine) THEN 1 ELSE 0)
        + Cardinality({t \in Threads : HoldsModel(th[t].engine)})

CacheEntry(c) == <<c.model_key, c.engine, c.runtime_options>>

---------------------------------------------------------------------------
(* C1 *)

\* C1, as the claim states it: of two requests in a row for the same model
\* under the same options, the second performs no load, whatever the first
\* one's outcome was (one load in total).
C1_TwiceInARowOneLoad ==
    [][\A t \in Threads :
          (/\ Checks(t)
           /\ last.kind \in {"Ok", "TranscriptionFailed", "LoadFailed"}
           /\ last.cache_key = Some(RequestKey(t)))
          => th'[t].pc = "transcribe"]_vars

\* C1, amended: ensure_engine_loaded starts a load exactly when the cached
\* key is absent or differs from the request's key; the test itself leaves
\* the cache as it is, and when the key matches the cached key and engine
\* stay unchanged until the call returns; a request that follows a request
\* for the same model and options whose load succeeded performs no load.
C1_LoadOnlyOnKeyChange ==
    /\ [][\A t \in Threads :
            Checks(t) =>
               /\ (th'[t].pc = "loading") <=> (cache.model_key # Some(RequestKey(t)))
               /\ cache' = cache
               /\ (/\ last.kind \in {"Ok", "TranscriptionFailed"}
                   /\ last.cache_key = Some(RequestKey(t)))
                  => th'[t].pc = "transcribe"]_vars
    /\ [][\A t \in Threads :
            (InCall(t) /\ th[t].pc # "loaded")
               => /\ cache'.engine = cache.engine
                  /\ cache'.model_key = cache.model_key]_vars

\* A request that found its key cached right after a successful request for
\* the same key: it is about to transcribe on the engine it found.
C1_Witness ==
    \E t \in Threads :
        /\ th[t].pc = "transcribe"
        /\ last.kind = "Ok"
        /\ last.cache_key = Some(th[t].cache_key)
        /\ cache.model_key = Some(th[t].cache_key)

---------------------------------------------------------------------------
(* C2 *)

\* C2: a request that follows a change of the runtime options performs a
\* load; every load builds its model under the options the cache holds at
\* that moment; and no transcription runs on an engine whose model was built
\* under other options than the current ones.
C2_OptionChangeForcesReload ==
    /\ [][\A t \in Threads :
            (Checks(t) /\ last.kind = "OptionsChanged") => th'[t].pc = "loading"]_vars
    /\ [](\A t \in Threads :
            /\ th[t].pc = "loaded"
                  => th[t].engine[1].model[1].options = cache.runtime_options
            /\ (th[t].pc = "transcribe" /\ HoldsModel(cache.engine))
                  => cache.engine[1].model[1].options = cache.runtime_options)

\* The options were changed after a transcription under the old options, and
\* the request that followed has loaded its model under the new ones.
C2_Witness ==
    \E t \in Threads :
        /\ th[t].pc = "loaded"
        /\ last.kind = "OptionsChanged"
        /\ ~cache.last_profile_summary.empty
        /\ cache.last_profile_summary.provider # cache.runtime_options
        /\ th[t].engine[1].model[1].options = cache.runtime_options

---------------------------------------------------------------------------
(* C3 *)

\* C3: at every moment at most one engine holds a loaded model.
C3_AtMostOneInstance == Resident <= 1

---------------------------------------------------------------------------
(* C4 *)

\* C4: a call holds the cache mutex from its key test to its return, so at
\* most one call is between the two; while it is, the cached engine, key and
\* runtime options change only by that call's own steps; and an engine in
\* the cache always holds a fully built model.
C4_LoadThenUseAtomic ==
    /\ [](\A t \in Threads : InCall(t) => mutex.holder = t)
    /\ [](cache.engine # None => HoldsModel(cache.engine))
    /\ [][\A t \in Threads :
            (InCall(t) /\ CacheEntry(cache)' # CacheEntry(cache)) => th'[t] # th[t]]_vars

\* A call is about to transcribe while another thread waits for the lock
\* with a change of the runtime options.
C4_Witness ==
    \E t, u \in Threads :
        /\ th[t].pc = "transcribe"
        /\ th[u].pc = "wait"
        /\ th[u].op = "set_runtime_options"
        /\ th[u].options # cache.runtime_options

---------------------------------------------------------------------------
(* C5 *)

\* C5: every entry point that finds the mutex poisoned returns the
\* poisoning to its caller as an error.
C5_PoisonSurfaced ==
    [][\A t \in Threads :
          (th[t].pc = "wait" /\ mutex.poisoned /\ Returns(t))
             => last'.kind \in {"CachePoisoned", "CacheLockFailed"}]_vars

---------------------------------------------------------------------------
(* C6 *)

\* C6: whenever unload returns, the cache holds no engine, no key and an
\* empty profiling summary.
C6_UnloadClears ==
    [][\A t \in Threads :
          (th[t].op = "unload" /\ Returns(t))
             => /\ cache'.engine = None
                /\ cache'.model_key = None
                /\ cache'.last_profile_summary.empty]_vars

---------------------------------------------------------------------------
(* C7 *)

\* C7: a call whose transcription fails leaves the cache as it was, with the
\* engine and the call's key in it, and a request for the same key that
\* follows it goes straight to transcription on that engine, without a load.
C7_TranscribeErrorKeepsEngine ==
    /\ [][\A t \in Threads :
            (th[t].pc = "transcribe" /\ Returns(t) /\ last'.kind = "TranscriptionFailed")
               => /\ cache' = cache
                  /\ HoldsModel(cache'.engine)
                  /\ cache'.model_key = Some(th[t].cache_key)]_vars
    /\ [][\A t \in Threads :
            (/\ Checks(t)
             /\ last.kind = "TranscriptionFailed"
             /\ last.cache_key = Some(RequestKey(t)))
               => (th'[t].pc = "transcribe" /\ cache' = cache)]_vars

\* A request is served from the cache right after a failed transcription
\* under the same key.
C7_Witness ==
    \E t \in Threads :
        /\ th[t].pc = "transcribe"
        /\ last.kind = "TranscriptionFailed"
        /\ last.cache_key = Some(th[t].cache_key)
        /\ cache.model_key = Some(th[t].cache_key)

---------------------------------------------------------------------------
(* C8 *)

\* C8: a call whose load fails returns from the load itself (it never
\* reaches transcription) with the load error, and leaves the whole cache as
\* it was; the cache never holds a key without an engine or an engine
\* without a key.
C8_LoadFailureKeepsCache ==
    /\ [][\A t \in Threads :
            (th[t].pc = "loading" /\ th'[t].pc \notin {"loading", "loaded"})
               => /\ Returns(t)
                  /\ last'.kind \in {"LoadFailed", "Panicked"}
                  /\ cache' = cache]_vars
    /\ [][\A t \in Threads :
            (Returns(t) /\ last'.kind = "LoadFailed") => th[t].pc = "loading"]_vars
    /\ []((cache.model_key = None) <=> (cache.engine = None))

\* A load failed while the cache held the entry of another key: the entry
\* is still there.
C8_Witness ==
    /\ last.kind = "LoadFailed"
    /\ cache.engine # None
    /\ cache.model_key # None
    /\ cache.model_key # last.cache_key

---------------------------------------------------------------------------
(* C9 *)

\* C9: transcribe_samples on a GigaamEngine returns the not-loaded error
\* exactly when no load_model has succeeded since the engine was built or
\* last unloaded, and a load_model that fails leaves the engine as it was.
C9_NotLoadedIffNoLoad ==
    /\ [](engCall.op = "transcribe_samples"
            => ((engCall.result = "NotLoaded") <=> ~engCall.loaded))
    /\ []((eng.model = None) <=> ~engCall.loaded)
    /\ [][engCall'.result = "LoadFailed" => eng' = eng]_vars

\* A load failed on an engine that held a model, and the model is still there.
C9_Witness ==
    /\ engCall.op = "load_model"
    /\ engCall.result = "LoadFailed"
    /\ engCall.loaded
    /\ eng.model # None

---------------------------------------------------------------------------
(* C10 *)

\* C10: on a constructed frontend every input shorter than the window (the
\* empty one included) gives zero frames without error, and the model's
\* transcribe_samples on it returns success with empty text, inference time
\* 0 and decode time 0, having run neither the backend nor the decoder.
C10_ShortInputEmptyReport ==
    frontend # None =>
        /\ \A len \in 0..MaxSamples :
              len < frontend[1].win_length =>
                 /\ extract_features(frontend[1], len).ok
                 /\ extract_features(frontend[1], len).frame_count = 0
                 /\ extract_features(frontend[1], len).shape = <<1, frontend[1].n_mels, 0>>
        /\ (report.result # "" /\ report.samples < frontend[1].win_length) =>
              /\ report.result = "Ok"
              /\ report.text = ""
              /\ report.frames = 0
              /\ report.ort_run_ms = 0
              /\ report.decode_ms = 0
              /\ report.backend_runs = 0
              /\ report.decoder_runs = 0

\* transcribe_samples has returned on a non-empty input shorter than the
\* window.
C10_Witness ==
    /\ frontend # None
    /\ report.result = "Ok"
    /\ report.samples > 0
    /\ report.samples < frontend[1].win_length

---------------------------------------------------------------------------
(* C11 *)

\* C11: at every time step the decoder appends the chosen index exactly
\* when it differs from the blank id and from the index chosen at the step
\* before (the blank id before the first step), so the output never holds
\* the blank id; the logits choosing 1,1,blank,1,2,2 with blank id 3 decode
\* to <<1, 1, 2>>.
C11_EmitsOnChange ==
    /\ [][(ctc.phase = "decoding" /\ ctc'.phase = "decoding" /\ ctc' # ctc) =>
            ctc'.token_ids =
               IF ctc'.best_idx # ctc.blank_idx /\ ctc'.best_idx # ctc.best_idx
               THEN Append(ctc.token_ids, ctc'.best_idx)
               ELSE ctc.token_ids]_vars
    /\ [](ctc.phase \in {"decoding", "done"} =>
            \A i \in DOMAIN ctc.token_ids : ctc.token_ids[i] # ctc.blank_idx)
    /\ [](ctc_greedy_decode_ids(TestLogits, 6, 3) = <<1, 1, 2>>)

\* The decoder returned two equal labels: they were chosen with a blank
\* between them.
C11_Witness ==
    /\ ctc.phase = "done"
    /\ ctc.frame_idx = 3
    /\ ctc.token_ids = <<1, 1>>

---------------------------------------------------------------------------
(* C12 *)

\* C12: the index chosen for a frame holds a value no other value of the
\* frame is greater than, and is the highest index among those holding
\* that value.
C12_ChoosesLastMax ==
    (ctc.phase \in {"decoding", "done"} /\ ctc.frame_idx > 0 /\ Len(ctc.frame) > 0) =>
        /\ ctc.best_idx < Len(ctc.frame)
        /\ \A j \in 0..(Len(ctc.frame) - 1) :
              /\ partial_cmp(ctc.frame[j + 1], ctc.frame[ctc.best_idx + 1]) # Some("Greater")
              /\ (ctc.frame[j + 1] = ctc.frame[ctc.best_idx + 1]) => j <= ctc.best_idx

---------------------------------------------------------------------------
(* C13 *)

\* C13: a call with zero frames skips decoding; otherwise the encoded
\* length is floor((frame_count - 1) / subsampling_factor) + 1, at least 0,
\* and the decoder examines the time steps 0, 1, ... in order and stops
\* after exactly min(encoded length, time steps of the logits) of them.
C13_UsableSteps ==
    /\ ctc.phase \in {"skipped", "decoding", "done"} =>
          (ctc.phase = "skipped") <=> (ctc.feature_length = 0)
    /\ ctc.phase = "skipped" =>
          /\ ctc.frame_idx = 0
          /\ ctc.token_ids = <<>>
          /\ Max(((ctc.feature_length - 1) \div ctc.subsampling_factor) + 1, 0) = 0
    /\ ctc.phase \in {"decoding", "done"} =>
          /\ ctc.encoded_len =
                Max(((ctc.feature_length - 1) \div ctc.subsampling_factor) + 1, 0)
          /\ ctc.frame_idx <= Min(ctc.encoded_len, ctc.time_steps)
          /\ ctc.phase = "done" => ctc.frame_idx = Min(ctc.encoded_len, ctc.time_steps)

\* The decoder stopped at the encoded length, before the end of the logits.
C13_Witness ==
    /\ ctc.phase = "done"
    /\ ctc.frame_idx > 0
    /\ ctc.frame_idx = ctc.encoded_len
    /\ ctc.encoded_len < ctc.time_steps

---------------------------------------------------------------------------
(* C14 *)

\* C14: on a constructed frontend and an input of len >= win_length samples,
\* the frame count is floor((len - win_length) / hop_length) + 1, frame k
\* reads exactly the samples k*hop_length .. k*hop_length + win_length - 1,
\* every index read is below len, and no sample after the last full frame
\* is read.
C14_FramesReadInBounds ==
    frontend # None =>
        LET fe == frontend[1]
        IN  /\ \A len \in fe.win_length..MaxSamples :
                  LET f == extract_features(fe, len)
                      frame_count == ((len - fe.win_length) \div fe.hop_length) + 1
                  IN  /\ f.ok
                      /\ f.frame_count = frame_count
                      /\ \A k \in 0..(frame_count - 1) :
                            frame_reads(fe, k) =
                               (k * fe.hop_length)..((k * fe.hop_length) + fe.win_length - 1)
                      /\ \A idx \in samples_read(fe, len) :
                            /\ idx < len
                            /\ idx <= ((frame_count - 1) * fe.hop_length) + fe.win_length - 1
            /\ (report.result # "" /\ report.samples >= fe.win_length) =>
                  report.frames = ((report.samples - fe.win_length) \div fe.hop_length) + 1

\* An input of at least two frames whose last samples fill no frame.
C14_Witness ==
    /\ frontend # None
    /\ report.result = "Ok"
    /\ report.frames >= 2
    /\ report.samples >
          ((report.frames - 1) * frontend[1].hop_length) + frontend[1].win_length
    /\ frontend[1].n_fft > frontend[1].win_length

---------------------------------------------------------------------------
(* C15 *)

\* What a vocabulary line says, read off the line itself.
LineBody(line) == trim_end(line)

Malformed(line) ==
    /\ LineBody(line) # <<>>
    /\ \/ rsplit_once(LineBody(line)) = None
       \/ parse_usize(trim(rsplit_once(LineBody(line))[1][2])) = None

LineToken(line) == rsplit_once(LineBody(line))[1][1]

LineId(line) == parse_usize(trim(rsplit_once(LineBody(line))[1][2]))[1]

\* The positions of the lines that list an id.
Listed(content) ==
    {i \in DOMAIN content : LineBody(content[i]) # <<>> /\ ~Malformed(content[i])}

BlkLines(content) == {i \in Listed(content) : LineToken(content[i]) = BlkToken}

MaxListedId(content) ==
    CHOOSE m \in {LineId(content[i]) : i \in Listed(content)} :
        \A i \in Listed(content) : LineId(content[i]) <= m

\* A token with every word-boundary marker turned into a space.
Spaced(token) == [i \in DOMAIN token |-> IF token[i] = "_" THEN " " ELSE token[i]]

\* The test input gives blank id 3, " hello" at id 1 and "world" at id 2.
TestVocabParsed ==
    LET parsed == parse_vocab_content(TestVocabContent)
    IN  /\ parsed.phase = "parsed"
        /\ parsed.blank_idx = Some(3)
        /\ parsed.vocab[2] = <<" ", "h", "e", "l", "l", "o">>
        /\ parsed.vocab[3] = <<"w", "o", "r", "l", "d">>

\* C15 as stated: parsing fails exactly when no line has the token <blk>;
\* otherwise the blank id is the id of the <blk> line, and the table has
\* length max id + 1, holds at every listed id its token with the markers
\* replaced by spaces, and the empty string at every unlisted id.
C15_FailsOnlyWithoutBlk ==
    /\ voc.phase \in {"parsed", "error"} =>
          /\ (voc.phase = "error") <=> (BlkLines(voc.content) = {})
          /\ voc.phase = "parsed" =>
                /\ \A i \in BlkLines(voc.content) :
                      voc.blank_idx = Some(LineId(voc.content[i]))
                /\ Len(voc.vocab) = MaxListedId(voc.content) + 1
                /\ \A i \in Listed(voc.content) :
                      voc.vocab[LineId(voc.content[i]) + 1] = Spaced(LineToken(voc.content[i]))
                /\ \A id \in 0..MaxListedId(voc.content) :
                      (\A i \in Listed(voc.content) : LineId(voc.content[i]) # id)
                         => voc.vocab[id + 1] = <<>>
    /\ TestVocabParsed

\* C15, amended: parsing fails exactly when a non-empty line has no space
\* or an id that is not a number, or when no line has the token <blk>;
\* otherwise the blank id is the id of the last <blk> line, and the table
\* has length max id + 1, holds at every listed id the token of the last
\* line listing it with the markers replaced by spaces, and the empty
\* string at every unlisted id.
C15_ParsesDenseTable ==
    /\ voc.phase \in {"parsed", "error"} =>
          /\ (voc.phase = "error") <=>
                \/ \E i \in DOMAIN voc.content : Malformed(voc.content[i])
                \/ BlkLines(voc.content) = {}
          /\ voc.phase = "parsed" =>
                /\ \E i \in BlkLines(voc.content) :
                      /\ \A j \in BlkLines(voc.content) : j <= i
                      /\ voc.blank_idx = Some(LineId(voc.content[i]))
                /\ Len(voc.vocab) = MaxListedId(voc.content) + 1
                /\ \A i \in Listed(voc.content) :
                      (\A j \in Listed(voc.content) :
                          LineId(voc.content[j]) = LineId(voc.content[i]) => j <= i)
                         => voc.vocab[LineId(voc.content[i]) + 1] =
                               Spaced(LineToken(voc.content[i]))
                /\ \A id \in 0..MaxListedId(voc.content) :
                      (\A i \in Listed(voc.content) : LineId(voc.content[i]) # id)
                         => voc.vocab[id + 1] = <<>>
    /\ TestVocabParsed

\* A parsed table with an unlisted id 0, a token whose marker became a
\* space at id 1, and <blk> at id 2.
C15_Witness ==
    /\ voc.phase = "parsed"
    /\ voc.blank_idx = Some(2)
    /\ voc.vocab = << <<>>, <<" ", "a">>, BlkToken >>

---------------------------------------------------------------------------
(* C16 *)

\* The vocabulary strings of the ids in order, nothing for an id outside
\* the vocabulary.
RECURSIVE Joined(_, _)
Joined(ids, vocab) ==
    IF ids = <<>> THEN <<>>
    ELSE (IF ids[1] + 1 \in DOMAIN vocab THEN vocab[ids[1] + 1] ELSE <<>>)
         \o Joined(Tail(ids), vocab)

\* The three-way rule as stated, on character i of str: a space at the
\* start or before a non-word character goes, a space before a word
\* character is one space, anything else stays.
StatedImage(str, i) ==
    IF str[i] # " " THEN <<str[i]>>
    ELSE IF i = 1 THEN <<>>
    ELSE IF i < Len(str) /\ ~is_word_char(str[i + 1]) THEN <<>>
    ELSE <<" ">>

RECURSIVE StatedText(_, _)
StatedText(str, i) ==
    IF i > Len(str) THEN <<>> ELSE StatedImage(str, i) \o StatedText(str, i + 1)

\* The rule the code follows: a whitespace character at the start, at the
\* end or before a non-word character goes, one before a word character is
\* one space, anything else stays.
AmendedImage(str, i) ==
    IF str[i] \notin {" ", "\t"} THEN <<str[i]>>
    ELSE IF i = 1 \/ i = Len(str) THEN <<>>
    ELSE IF ~is_word_char(str[i + 1]) THEN <<>>
    ELSE <<" ">>

RECURSIVE AmendedText(_, _)
AmendedText(str, i) ==
    IF i > Len(str) THEN <<>> ELSE AmendedImage(str, i) \o AmendedText(str, i + 1)

\* C16 as stated: the text is the concatenation of the vocabulary strings
\* of the ids (ids out of range skipped) with a space at the very start
\* removed, a space before a non-word character removed, a space before a
\* word boundary made a single space, and every other character kept.
C16_ThreeWaySpacing ==
    /\ txt.phase \in {"concatenated", "done"} =>
          txt.concatenated = Joined(txt.token_ids, txt.vocab)
    /\ txt.phase = "done" => txt.text = StatedText(txt.concatenated, 1)

\* C16, amended: as stated, the rule applying to every whitespace
\* character, and a whitespace character at the very end of the string
\* being removed too.
C16_WhitespaceSpacing ==
    /\ txt.phase \in {"concatenated", "done"} =>
          txt.concatenated = Joined(txt.token_ids, txt.vocab)
    /\ txt.phase = "done" => txt.text = AmendedText(txt.concatenated, 1)

\* " hello" then "world" then an id outside the vocabulary then " hello":
\* the first space goes, the one before the second hello stays.
C16_Witness ==
    /\ txt.phase = "done"
    /\ txt.token_ids = <<1, 2, 5, 1>>
    /\ txt.text = <<"h", "e", "l", "l", "o", "w", "o", "r", "l", "d", " ",
                    "h", "e", "l", "l", "o">>

---------------------------------------------------------------------------
(* C17 *)

ProviderKinds(providers) == [i \in DOMAIN providers |-> providers[i].kind]

\* C17: the candidates, the NPU half-precision flag and the thread settings
\* of a plan are those of the table for its (accelerator mode, speed
\* profile), whatever the availability probes returned: Auto has XNNPACK,
\* NNAPI, CPU in this order, NNAPI with half precision unless the profile
\* is Quality, and 1 / 1 / sequential; Cpu has the CPU provider alone and
\* Balanced (4, 1, sequential), Fast (6, 1, sequential), Quality
\* (4, 1, parallel).
C17_PlanTable ==
    plan.phase = "planned" =>
        LET o == plan.options
            p == plan.runtime_plan
            threads == <<p.intra_threads, p.inter_threads, p.parallel_execution>>
        IN  /\ o.accelerator_mode \in {"Auto", "Cpu"}
            /\ o.speed_profile \in {"Balanced", "Fast", "Quality"}
            /\ o.accelerator_mode = "Auto" =>
                  /\ ProviderKinds(p.providers) = <<"XNNPACK", "NNAPI", "CPU">>
                  /\ p.providers[2].fp16 = (o.speed_profile # "Quality")
                  /\ p.providers[2].disable_cpu
                  /\ threads = <<1, 1, FALSE>>
            /\ o.accelerator_mode = "Cpu" =>
                  /\ ProviderKinds(p.providers) = <<"CPU">>
                  /\ o.speed_profile = "Balanced" => threads = <<4, 1, FALSE>>
                  /\ o.speed_profile = "Fast" => threads = <<6, 1, FALSE>>
                  /\ o.speed_profile = "Quality" => threads = <<4, 1, TRUE>>

\* An Auto plan under Quality on a device where the SIMD and NPU backends
\* are not available: the three candidates are registered all the same.
C17_Witness ==
    /\ plan.phase = "planned"
    /\ plan.options = [speed_profile |-> "Quality", accelerator_mode |-> "Auto"]
    /\ plan.probes.xnnpack = "false"
    /\ plan.probes.nnapi = "err"
    /\ Len(plan.runtime_plan.providers) = 3
    /\ ~plan.runtime_plan.provider_summary.xnnpack_available

---------------------------------------------------------------------------
(* C18 *)

\* A configuration that breaks an invariant of the acoustic configuration.
ViolatesInvariant(cfg) ==
    \/ cfg.hop_length = 0
    \/ cfg.win_length = 0
    \/ cfg.n_fft = 0
    \/ cfg.n_fft < cfg.win_length
    \/ cfg.center
    \/ cfg.mel_scale \notin {"htk", "HTK"}

\* C18: the construction of the frontend fails for every configuration with
\* hop_length = 0, win_length = 0, n_fft = 0, n_fft < win_length,
\* center = true or a mel scale other than "htk" ignoring case; so a
\* frontend that exists has none of these, and extract_features on it
\* returns no error on any input.
C18_InvalidConfigFailsAtConstruction ==
    /\ ViolatesInvariant(config) =>
          /\ frontend = None
          /\ \A geometry_ok \in BOOLEAN : ~from_config(config, geometry_ok).ok
    /\ frontend # None =>
          /\ frontend[1].hop_length > 0
          /\ frontend[1].win_length > 0
          /\ frontend[1].n_fft >= frontend[1].win_length
          /\ ~frontend[1].center
          /\ \A len \in 0..MaxSamples : extract_features(frontend[1], len).ok
    /\ report.result # "FeatureExtractionFailed"

\* The construction was tried on a configuration whose only fault is its
\* mel scale, and failed.
C18_Witness ==
    /\ config.mel_scale = "mel"
    /\ ~config.center
    /\ config.hop_length > 0
    /\ config.n_fft >= config.win_length
    /\ config.win_length > 0
    /\ report.result = "UnsupportedMelScale"
    /\ frontend = None

---------------------------------------------------------------------------
(* C19 *)

\* C19: a non-empty summary returned by get-last-profiling-summary
\* describes a call made on the engine the cache holds: once that engine
\* has been replaced by a reload or cleared by a change of the runtime
\* options or by unload, its summary is returned no more.
C19_SummarySharesLifecycle ==
    [][\A t \in Threads :
          (/\ th[t].op = "get_last_profiling_summary"
           /\ Returns(t)
           /\ last'.kind = "Summary")
          => /\ HoldsModel(cache.engine)
             /\ cache.last_profile_summary.provider = cache.engine[1].model[1].options]_vars

---------------------------------------------------------------------------
(* C20 *)

\* The keys of the supported models under the given options.
KeysUnder(runtime_options) ==
    {root \o "/" \o model_subdirectory_name(id).val \o "?" \o
        "profile=" \o speed_profile_as_id(runtime_options.speed_profile) \o
        ";accelerator=" \o accelerator_mode_as_id(runtime_options.accelerator_mode) :
        root \in RootInputs, id \in {MODEL_INT8_ID, MODEL_FULL_ID}}

\* C20: in every reachable state the cache holds a model key exactly when
\* it holds an engine with a loaded model, and then the option fragment of
\* the key is the serialization of the cache's current runtime options,
\* which are also the options the model was loaded with.
C20_KeyIffEngine ==
    /\ (cache.model_key # None) <=> HoldsModel(cache.engine)
    /\ cache.engine # None => HoldsModel(cache.engine)
    /\ cache.model_key # None =>
          /\ cache.model_key[1] \in KeysUnder(cache.runtime_options)
          /\ cache.engine[1].model[1].options = cache.runtime_options

\* A model cached under options other than the default ones, after the
\* options were changed.
C20_Witness ==
    /\ cache.runtime_options = [speed_profile |-> "Fast", accelerator_mode |-> "Cpu"]
    /\ cache.model_key =
          Some("/models/gigaam-v3-e2e-ctc?profile=fast;accelerator=cpu")
    /\ HoldsModel(cache.engine)
    /\ \A t \in Threads : th[t].pc = "idle"

---------------------------------------------------------------------------
(* C21 *)

\* C21: a call takes the mutex once, when it stops waiting, holds it only
\* while it runs and has released it when it returns, whatever way it
\* returns; so under a fair lock and a backend whose calls return every
\* call that was started returns, whatever the other callers do.
C21_CallsComplete ==
    /\ [](\A t \in Threads : mutex.holder = t => InCall(t))
    /\ [][\A t \in Threads :
            /\ (mutex'.holder = t /\ mutex.holder # t) => th[t].pc = "wait"
            /\ Returns(t) => mutex'.holder # t]_vars
    /\ \A t \in Threads : (th[t].pc # "idle") ~> (th[t].pc = "idle")

\* A request waits for the mutex while another request holds it.
C21_Witness ==
    \E t, u \in Threads :
        /\ th[t].pc = "transcribe"
        /\ mutex.holder = t
        /\ th[u].pc = "wait"
        /\ th[u].op \in RequestOps

---------------------------------------------------------------------------
(* C22 *)

\* C22: whatever files the model directory holds, the weights file opened
\* for a request that passed validation is the one validation required for
\* its model id: v3_e2e_ctc.int8.onnx for the int8 id, v3_e2e_ctc.onnx for
\* the full id.
C22_OpensValidatedWeights ==
    files.phase = "opened" =>
        /\ files.model_id = MODEL_INT8_ID => files.opened = Some("v3_e2e_ctc.int8.onnx")
        /\ files.model_id = MODEL_FULL_ID => files.opened = Some("v3_e2e_ctc.onnx")

====
